---- MODULE Spec2Model ----
(***************************************************************************)
(* Model of lib/util/config/sanitised.go: SanitizeComponent, which reduces *)
(* a component config to its "type" field plus the one payload belonging   *)
(* to that type, and the Sanitised map type with its MarshalYAML and       *)
(* MarshalJSON methods, which emit the "type" field first.                 *)
(*                                                                         *)
(* A Go value (interface{}) is a record [kind, val]: kind is one of        *)
(* "null" (the nil interface), "str", "num", "bool", "seq", "map", and,    *)
(* for caller-supplied values only, "struct".  val is the string content   *)
(* for "str" and the value's JSON literal for the other kinds.  A Go       *)
(* map[string]interface{} is a function from its keys to values.  A Go     *)
(* string is named by a TLA+ string and Bytes gives its bytes.  A byte     *)
(* buffer is the sequence of the lexical chunks written to it, in order    *)
(* (a brace, a quote, a key, the quote and colon after a key, the chunks   *)
(* of an encoded value, a comma), each chunk a sequence of bytes; the      *)
(* bytes of the buffer are their concatenation.  toolchain is the Go       *)
(* release the program is built with, fixed for a run: encoding/json       *)
(* escapes two control characters differently from Go 1.22 on.             *)
(***************************************************************************)
EXTENDS Integers, Sequences, FiniteSets, TLC

VARIABLES conf, hashMap, result, branch, s, origin, json, yaml, toolchain

vars == <<conf, hashMap, result, branch, s, origin, json, yaml, toolchain>>

(***************************************************************************)
(* Bounds of the model.                                                    *)
(***************************************************************************)
\* The largest number of keys other than "type" in a Sanitised record that
\* a caller builds directly.
MaxOthers == 3

(***************************************************************************)
(* Values and maps.                                                        *)
(***************************************************************************)
NullV == [kind |-> "null", val |-> "null"]

Str(x) == [kind |-> "str", val |-> x]

Lit(k, text) == [kind |-> k, val |-> text]

EmptyMap == [k \in {} |-> NullV]

\* put(m, k, v): the Go statement m[k] = v.
Put(m, k, v) == [x \in DOMAIN m \cup {k} |-> IF x = k THEN v ELSE m[x]]

(***************************************************************************)
(* The bytes of the Go strings of the model.  A string with bytes that are *)
(* not printable ASCII is named by its Go literal.  Strings compare as Go  *)
(* compares them: bytewise, a proper prefix first.                         *)
(***************************************************************************)
Bytes(k) ==
    CASE k = ""       -> <<>>
      [] k = "custom" -> <<99, 117, 115, 116, 111, 109>>
      [] k = "http"   -> <<104, 116, 116, 112>>
      [] k = "plugin" -> <<112, 108, 117, 103, 105, 110>>
      [] k = "ty"     -> <<116, 121>>
      [] k = "type"   -> <<116, 121, 112, 101>>
      [] k = "types"  -> <<116, 121, 112, 101, 115>>
      [] k = "x"      -> <<120>>
      [] k = "a\"b\\c" -> <<97, 34, 98, 92, 99>>
      [] k = "a<b>&"  -> <<97, 60, 98, 62, 38>>
      [] k = "\n\t\r\\x01\\x08\\x0c\\x1f\\x7f" ->
           <<10, 9, 13, 1, 8, 12, 31, 127>>
      [] k = "\\u00e9\\u2028\\u2029\\U0001F600" ->
           <<195, 169, 226, 128, 168, 226, 128, 169, 240, 159, 152, 128>>
      [] k = "a\\xffb\\xe2\\x80" -> <<97, 255, 98, 226, 128>>
      [] k = "null"   -> <<110, 117, 108, 108>>
      [] k = "1"      -> <<49>>
      [] k = "true"   -> <<116, 114, 117, 101>>
      [] k = "[1]"    -> <<91, 49, 93>>
      [] k = "{\"a\":1}" -> <<123, 34, 97, 34, 58, 49, 125>>
      [] k = "{\"url\":\"x\"}" ->
           <<123, 34, 117, 114, 108, 34, 58, 34, 120, 34, 125>>

RECURSIVE SeqLess(_, _)
SeqLess(a, b) ==
    IF b = <<>> THEN FALSE
    ELSE IF a = <<>> THEN TRUE
    ELSE IF Head(a) # Head(b) THEN Head(a) < Head(b)
    ELSE SeqLess(Tail(a), Tail(b))

StrLess(a, b) == SeqLess(Bytes(a), Bytes(b))

RECURSIVE Insert(_, _)
Insert(sorted, k) ==
    IF sorted = <<>> THEN <<k>>
    ELSE IF StrLess(k, Head(sorted)) THEN <<k>> \o sorted
    ELSE <<Head(sorted)>> \o Insert(Tail(sorted), k)

RECURSIVE InsertAll(_, _)
InsertAll(sorted, keys) ==
    IF keys = <<>> THEN sorted
    ELSE InsertAll(Insert(sorted, Head(keys)), Tail(keys))

\* A sort that leaves the keys in the order the map iteration gave them.
SortStrings_Unsorted(keys) == keys

\* sort.Strings(keys)
SortStrings(keys) == InsertAll(<<>>, keys)

(***************************************************************************)
(* SanitizeComponent                                                       *)
(***************************************************************************)
\* The generic form of one value after yaml.Marshal and yaml.Unmarshal into
\* interface{}: a struct comes back as a generic mapping, every other kind
\* as itself.
GenerifyValue(v) == IF v.kind = "struct" THEN Lit("map", v.val) ELSE v

\* yaml.Marshal(conf) followed by yaml.Unmarshal(cBytes, &hashMap).
\* conf.top tells what the caller passed: a mapping or struct ("map"), nil
\* ("nil", whose document "null" leaves the map without entries), a scalar
\* or a sequence (which do not unmarshal into a map), or a value whose own
\* marshaller reports an error ("marshalerr").
Generify(c) ==
    CASE c.top = "map" ->
           [m |-> [k \in DOMAIN c.m |-> GenerifyValue(c.m[k])], err |-> "nil"]
      [] c.top = "nil" -> [m |-> EmptyMap, err |-> "nil"]
      [] c.top = "marshalerr" -> [m |-> EmptyMap, err |-> "yaml: marshal error"]
      [] OTHER -> [m |-> EmptyMap, err |-> "yaml: unmarshal errors"]

\* A type assertion that reports success for whatever it finds, leaving
\* the zero string when the value is no string.
TypeAssert_Unchecked(hm) ==
    IF "type" \in DOMAIN hm /\ hm["type"].kind = "str"
    THEN [typeStr |-> hm["type"].val, exists |-> TRUE]
    ELSE [typeStr |-> "", exists |-> TRUE]

\* typeStr, exists := hashMap["type"].(string)
TypeAssert(hm) ==
    IF "type" \in DOMAIN hm /\ hm["type"].kind = "str"
    THEN [typeStr |-> hm["type"].val, exists |-> TRUE]
    ELSE [typeStr |-> "", exists |-> FALSE]

\* The plugin entry looked at before the entry named by the type.
SelectPayload_PluginFirst(hm, typeStr, sanitMap) ==
    IF "plugin" \in DOMAIN hm /\ hm["plugin"] # NullV
    THEN [rec |-> Put(sanitMap, "plugin", hm["plugin"]), branch |-> "plugin"]
    ELSE IF typeStr \in DOMAIN hm
    THEN [rec |-> Put(sanitMap, typeStr, hm[typeStr]), branch |-> "type"]
    ELSE [rec |-> sanitMap, branch |-> "none"]

\* The plugin entry copied without the test for nil.
SelectPayload_NoNilCheck(hm, typeStr, sanitMap) ==
    IF typeStr \in DOMAIN hm
    THEN [rec |-> Put(sanitMap, typeStr, hm[typeStr]), branch |-> "type"]
    ELSE IF "plugin" \in DOMAIN hm
    THEN [rec |-> Put(sanitMap, "plugin", hm["plugin"]), branch |-> "plugin"]
    ELSE [rec |-> sanitMap, branch |-> "none"]

\* The first arm alone: the plugin entry is never used.
SelectPayload_NoFallback(hm, typeStr, sanitMap) ==
    IF typeStr \in DOMAIN hm
    THEN [rec |-> Put(sanitMap, typeStr, hm[typeStr]), branch |-> "type"]
    ELSE [rec |-> sanitMap, branch |-> "none"]

\* Two independent tests instead of if / else if: both entries are copied.
SelectPayload_Both(hm, typeStr, sanitMap) ==
    LET first == IF typeStr \in DOMAIN hm
                 THEN Put(sanitMap, typeStr, hm[typeStr])
                 ELSE sanitMap
    IN IF "plugin" \in DOMAIN hm /\ hm["plugin"] # NullV
       THEN [rec |-> Put(first, "plugin", hm["plugin"]),
             branch |-> IF typeStr \in DOMAIN hm THEN "type" ELSE "plugin"]
       ELSE [rec |-> first,
             branch |-> IF typeStr \in DOMAIN hm THEN "type" ELSE "none"]

\* if _, exists := hashMap[typeStr]; exists { ... } else if pluginConf ...
\* branch names the arm that ran.
SelectPayload(hm, typeStr, sanitMap) ==
    IF typeStr \in DOMAIN hm
    THEN [rec |-> Put(sanitMap, typeStr, hm[typeStr]), branch |-> "type"]
    ELSE IF "plugin" \in DOMAIN hm /\ hm["plugin"] # NullV
    THEN [rec |-> Put(sanitMap, "plugin", hm["plugin"]), branch |-> "plugin"]
    ELSE [rec |-> sanitMap, branch |-> "none"]

\* The result of SanitizeComponent(c): the record returned (without entries
\* and isNil when the Go result is the nil map), the error, the generic
\* record and the arm that chose the payload.
SanitizeResult(c) ==
    LET g == Generify(c)
        t == TypeAssert(g.m)
    IN IF g.err # "nil"
       THEN [rec |-> EmptyMap, isNil |-> TRUE, err |-> g.err,
             hashMap |-> g.m, branch |-> "none"]
       ELSE IF ~t.exists
       THEN [rec |-> EmptyMap, isNil |-> TRUE,
             err |-> "attempted to sanitize config without a type field",
             hashMap |-> g.m, branch |-> "none"]
       ELSE LET sel == SelectPayload(g.m, t.typeStr,
                                     Put(EmptyMap, "type", Str(t.typeStr)))
            IN [rec |-> sel.rec, isNil |-> FALSE, err |-> "nil",
                hashMap |-> g.m, branch |-> sel.branch]

(***************************************************************************)
(* Sanitised.MarshalYAML                                                   *)
(***************************************************************************)
\* The loop without its else: every key, "type" included, goes to dynObj.
YamlFields_KeepType(rcv) ==
    [tags |-> <<"type", ",inline">>,
     Type |-> IF "type" \in DOMAIN rcv THEN rcv["type"] ELSE NullV,
     SanitForYAML |-> [k \in DOMAIN rcv |-> rcv[k]]]

\* for k, v := range s { if k == "type" { typeVal = v } else { dynObj[k] = v } }
\* and the struct literal built from typeVal and dynObj.  typeVal is the
\* nil interface (NullV) when the loop meets no "type" key.  tags lists the
\* yaml tags of the struct's fields in the order they are declared.
YamlFields(rcv) ==
    [tags |-> <<"type", ",inline">>,
     Type |-> IF "type" \in DOMAIN rcv THEN rcv["type"] ELSE NullV,
     SanitForYAML |-> [k \in DOMAIN rcv \ {"type"} |-> rcv[k]]]

\* MarshalYAML always returns a nil error.
MarshalYAMLResult(rcv) == [val |-> YamlFields(rcv), err |-> "nil"]

(***************************************************************************)
(* Sanitised.MarshalJSON                                                   *)
(***************************************************************************)
\* The chunks MarshalJSON writes around keys and pairs.
LBrace == <<123>>

RBrace == <<125>>

Quote == <<34>>

QuoteColon == <<34, 58>>

Comma == <<44>>

\* A lower-case hexadecimal digit.
Hex(n) == IF n < 10 THEN 48 + n ELSE 87 + n

\* The length of the UTF-8 sequence that starts at bs[i]: 1 for an ASCII
\* byte, 2 to 4 for a well-formed longer sequence, and 0 where the bytes are
\* no well-formed sequence (a stray or overlong byte, a surrogate, a
\* sequence cut short).
RuneSize(bs, i) ==
    LET b0 == bs[i]
        n == IF b0 < 128 THEN 1
             ELSE IF b0 >= 194 /\ b0 <= 223 THEN 2
             ELSE IF b0 >= 224 /\ b0 <= 239 THEN 3
             ELSE IF b0 >= 240 /\ b0 <= 244 THEN 4
             ELSE 0
        lo == IF b0 = 224 THEN 160 ELSE IF b0 = 240 THEN 144 ELSE 128
        hi == IF b0 = 237 THEN 159 ELSE IF b0 = 244 THEN 143 ELSE 191
    IN IF n <= 1 THEN n
       ELSE IF /\ i + n - 1 <= Len(bs)
               /\ bs[i + 1] >= lo /\ bs[i + 1] <= hi
               /\ \A j \in (i + 2)..(i + n - 1) : bs[j] >= 128 /\ bs[j] <= 191
       THEN n
       ELSE 0

\* The releases of Go the program can be built with, as far as the output
\* of encoding/json goes: up to Go 1.21, and from Go 1.22 on.
Toolchains == {"go1.21", "go1.22"}

\* What json.Marshal writes for the one-byte character b inside a string:
\* the byte itself, a backslash before a quote or a backslash, \n, \r and
\* \t, and \u00XX for the other control characters and for <, > and &;
\* built with Go 1.22 or later it writes \b and \f for 0x08 and 0x0c.
EscapeByte(b) ==
    IF b = 34 \/ b = 92 THEN <<92, b>>
    ELSE IF b = 8 /\ toolchain = "go1.22" THEN <<92, 98>>
    ELSE IF b = 12 /\ toolchain = "go1.22" THEN <<92, 102>>
    ELSE IF b = 10 THEN <<92, 110>>
    ELSE IF b = 13 THEN <<92, 114>>
    ELSE IF b = 9 THEN <<92, 116>>
    ELSE IF b < 32 \/ b = 60 \/ b = 62 \/ b = 38
    THEN <<92, 117, 48, 48, Hex(b \div 16), Hex(b % 16)>>
    ELSE <<b>>

\* The escaping json.Marshal applies to the bytes bs of a string, from
\* bs[i] on: ill-formed UTF-8 becomes \ufffd byte by byte, U+2028 and
\* U+2029 become \u2028 and \u2029, other well-formed sequences stay.
RECURSIVE EscapeFrom(_, _)
EscapeFrom(bs, i) ==
    IF i > Len(bs) THEN <<>>
    ELSE LET n == RuneSize(bs, i)
         IN IF n = 0
            THEN <<92, 117, 102, 102, 102, 100>> \o EscapeFrom(bs, i + 1)
            ELSE IF n = 1
            THEN EscapeByte(bs[i]) \o EscapeFrom(bs, i + 1)
            ELSE IF n = 3 /\ bs[i] = 226 /\ bs[i + 1] = 128
                    /\ bs[i + 2] \in {168, 169}
            THEN <<92, 117, 50, 48, 50, Hex(bs[i + 2] % 16)>>
                     \o EscapeFrom(bs, i + 3)
            ELSE SubSeq(bs, i, i + n - 1) \o EscapeFrom(bs, i + n)

\* The escaping json.Marshal applies inside the string x.
JsonEscape(x) == EscapeFrom(Bytes(x), 1)

\* json.Marshal(v) for one value: the nil interface is null, a string is
\* quoted and escaped, a NaN float is an unsupported value, every other
\* value is its literal.
JsonMarshal(v) ==
    CASE v.kind = "null" -> [bytes |-> <<Bytes("null")>>, err |-> "nil"]
      [] v.kind = "str" ->
           [bytes |-> <<Quote, JsonEscape(v.val), Quote>>, err |-> "nil"]
      [] v.kind = "num" /\ v.val = "NaN" ->
           [bytes |-> <<>>, err |-> "json: unsupported value: NaN"]
      [] OTHER -> [bytes |-> <<Bytes(v.val)>>, err |-> "nil"]

\* A loop that treats "type" as any other key.
Partition_NoHoist(rcv, order) == [typeVal |-> NullV, keys |-> order]

\* for k, v := range s { if k == "type" { typeVal = v } else { keys =
\* append(keys, k) } }, with the keys met in the order given.
Partition(rcv, order) ==
    [typeVal |-> IF \E i \in 1..Len(order) : order[i] = "type"
                 THEN rcv["type"] ELSE NullV,
     keys |-> SelectSeq(order, LAMBDA k : k # "type")]

\* A failure that hands back what the buffer holds so far.
EncodeError_Partial(buf, e) == [bytes |-> buf, err |-> e]

\* return nil, err
EncodeError(buf, e) == [bytes |-> <<>>, err |-> e]

\* if len(keys) > 0 { buf.WriteByte(',') }
TypeComma(n) == IF n > 0 THEN <<Comma>> ELSE <<>>

\* A comma after every key, the last one included.
KeyComma_Trailing(i, n) == IF i < n + 1 THEN <<Comma>> ELSE <<>>

\* if i < len(keys)-1 { buf.WriteByte(',') }, i counted from 1 here.
KeyComma(i, n) == IF i < n THEN <<Comma>> ELSE <<>>

\* if typeVal != nil { ... }
WriteType(buf, typeVal, n) ==
    IF typeVal # NullV
    THEN LET e == JsonMarshal(typeVal)
         IN IF e.err # "nil"
            THEN EncodeError(buf, e.err)
            ELSE [bytes |-> buf \o <<Quote, Bytes("type"), QuoteColon>> \o e.bytes
                                \o TypeComma(n),
                  err |-> "nil"]
    ELSE [bytes |-> buf, err |-> "nil"]

\* for i, k := range keys { ... }, then buf.WriteByte('}') and the return.
RECURSIVE WriteKeys(_, _, _, _)
WriteKeys(buf, rcv, keys, i) ==
    IF i > Len(keys)
    THEN [bytes |-> buf \o <<RBrace>>, err |-> "nil"]
    ELSE LET e == JsonMarshal(rcv[keys[i]])
         IN IF e.err # "nil"
            THEN EncodeError(buf, e.err)
            ELSE WriteKeys(buf \o <<Quote, Bytes(keys[i]), QuoteColon>> \o e.bytes
                               \o KeyComma(i, Len(keys)),
                           rcv, keys, i + 1)

\* MarshalJSON on receiver rcv when the range over the map meets its keys
\* in the order given.
MarshalJSONResult(rcv, order) ==
    LET p == Partition(rcv, order)
        keys == SortStrings(p.keys)
        t == WriteType(<<LBrace>>, p.typeVal, Len(keys))
    IN IF t.err # "nil" THEN t ELSE WriteKeys(t.bytes, rcv, keys, 1)

\* The orders in which a range over a map with key set S can meet the keys.
RECURSIVE IterOrders(_)
IterOrders(S) ==
    IF S = {} THEN {<<>>}
    ELSE UNION {{<<x>> \o p : p \in IterOrders(S \ {x})} : x \in S}

(***************************************************************************)
(* Inputs.                                                                 *)
(***************************************************************************)
TypeStrings == {"http", "plugin", "type", "", "custom"}

ConfKeys == {"type", "plugin", "http", ""}

ConfTypeValues ==
    {Str(t) : t \in TypeStrings}
        \cup {NullV, Lit("num", "1"), Lit("bool", "true"), Lit("seq", "[1]"),
              Lit("map", "{\"a\":1}")}

ConfValues ==
    {NullV, Str("x"), Lit("map", "{\"url\":\"x\"}"),
     Lit("struct", "{\"url\":\"x\"}"), Lit("num", "NaN")}

ConfMaps ==
    {m \in UNION {[D -> ConfTypeValues \cup ConfValues] : D \in SUBSET ConfKeys} :
        \A k \in DOMAIN m :
            IF k = "type" THEN m[k] \in ConfTypeValues ELSE m[k] \in ConfValues}

NilConf == [top |-> "nil", m |-> EmptyMap]

Confs ==
    {[top |-> "map", m |-> m] : m \in ConfMaps}
        \cup {[top |-> t, m |-> EmptyMap] :
                 t \in {"nil", "scalar", "seq", "marshalerr"}}

OtherKeys == {"", "plugin", "ty", "types"}

DirectTypeValues ==
    {NullV, Str("http"), Str(""), Str("a\"b\\c"), Str("a<b>&"),
     Str("\n\t\r\\x01\\x08\\x0c\\x1f\\x7f"),
     Str("\\u00e9\\u2028\\u2029\\U0001F600"), Str("a\\xffb\\xe2\\x80"),
     Lit("num", "1"), Lit("num", "NaN")}

DirectValues ==
    {NullV, Str("a<b>&"), Lit("num", "NaN")}

DirectRecords ==
    {m \in UNION {[D -> DirectTypeValues \cup DirectValues] :
                     D \in SUBSET (OtherKeys \cup {"type"})} :
        /\ Cardinality(DOMAIN m \ {"type"}) <= MaxOthers
        /\ \A k \in DOMAIN m :
               IF k = "type" THEN m[k] \in DirectTypeValues
               ELSE m[k] \in DirectValues}

(***************************************************************************)
(* The state machine: a caller either passes conf to SanitizeComponent or  *)
(* holds a Sanitised it built itself, and then marshals the record.        *)
(***************************************************************************)
NoResult == [rec |-> EmptyMap, isNil |-> TRUE, err |-> "nil"]

NotCalled == [called |-> FALSE, bytes |-> <<>>, err |-> "nil"]

NoYaml ==
    [called |-> FALSE,
     val |-> [tags |-> <<>>, Type |-> NullV, SanitForYAML |-> EmptyMap],
     err |-> "nil"]

Init ==
    /\ \/ conf \in Confs /\ origin = "input" /\ s = EmptyMap
       \/ conf = NilConf /\ origin = "direct" /\ s \in DirectRecords
    /\ hashMap = EmptyMap
    /\ result = NoResult
    /\ branch = "none"
    /\ json = NotCalled
    /\ yaml = NoYaml
    /\ toolchain \in Toolchains

SanitizeComponent ==
    /\ origin = "input"
    /\ LET r == SanitizeResult(conf)
       IN /\ hashMap' = r.hashMap
          /\ result' = [rec |-> r.rec, isNil |-> r.isNil, err |-> r.err]
          /\ branch' = r.branch
          /\ s' = r.rec
          /\ origin' = IF r.err = "nil" THEN "sanitized" ELSE "failed"
    /\ UNCHANGED <<conf, json, yaml, toolchain>>

MarshalJSON ==
    /\ origin \in {"direct", "sanitized"}
    /\ ~json.called
    /\ \E order \in IterOrders(DOMAIN s) :
           LET r == MarshalJSONResult(s, order)
           IN json' = [called |-> TRUE, bytes |-> r.bytes, err |-> r.err]
    /\ UNCHANGED <<conf, hashMap, result, branch, s, origin, yaml, toolchain>>

MarshalYAML ==
    /\ origin \in {"direct", "sanitized"}
    /\ ~yaml.called
    /\ LET r == MarshalYAMLResult(s)
       IN yaml' = [called |-> TRUE, val |-> r.val, err |-> r.err]
    /\ UNCHANGED <<conf, hashMap, result, branch, s, origin, json, toolchain>>

Next == SanitizeComponent \/ MarshalJSON \/ MarshalYAML

Spec == Init /\ [][Next]_vars

(***************************************************************************)
(* Vocabulary of the properties.                                           *)
(***************************************************************************)
\* SanitizeComponent has returned.
Returned == origin \in {"sanitized", "failed"}

\* The generic record has a "type" entry that is a string.
HasStrType == "type" \in DOMAIN hashMap /\ hashMap["type"].kind = "str"

\* The discriminant, where HasStrType holds.
Discriminant == hashMap["type"].val

\* The plugin entry of the generic record is there and not null.
HasPlugin == "plugin" \in DOMAIN hashMap /\ hashMap["plugin"] # NullV

\* The "type" value a marshaller sees: null when the key is absent.
TypeOf(rcv) == IF "type" \in DOMAIN rcv THEN rcv["type"] ELSE NullV

OthersOf(rcv) == DOMAIN rcv \ {"type"}

\* MarshalJSON has returned bytes and no error.
JsonOk == json.called /\ json.err = "nil"

\* The places in an output where a key starts, and the keys in output order.
KeyPositions(b) == {i \in 1..(Len(b) - 2) : b[i] = Quote /\ b[i + 2] = QuoteColon}

RECURSIVE KeysFrom(_, _)
KeysFrom(b, i) ==
    IF i > Len(b) - 2 THEN <<>>
    ELSE IF i \in KeyPositions(b) THEN <<b[i + 1]>> \o KeysFrom(b, i + 1)
    ELSE KeysFrom(b, i + 1)

KeysOf(b) == KeysFrom(b, 1)

\* The output starts with the brace and the "type" key.
TypeEmitted(b) ==
    /\ Len(b) >= 4
    /\ b[1] = LBrace /\ b[2] = Quote /\ b[3] = Bytes("type") /\ b[4] = QuoteColon

\* The keys of rcv other than "type", ascending.
Ascending(rcv) ==
    CHOOSE q \in IterOrders(OthersOf(rcv)) :
        \A i \in 1..Len(q) : \A j \in 1..Len(q) : i < j => StrLess(q[i], q[j])

\* The pairs an output of rcv is made of: the type pair when the type is
\* not null, then one pair per other key, ascending.
PairOf(rcv, k) == <<Quote, Bytes(k), QuoteColon>> \o JsonMarshal(rcv[k]).bytes

PairsOf(rcv) ==
    (IF TypeOf(rcv) # NullV THEN <<PairOf(rcv, "type")>> ELSE <<>>)
        \o [i \in 1..Len(Ascending(rcv)) |-> PairOf(rcv, Ascending(rcv)[i])]

\* The pairs joined with one comma between each two.
RECURSIVE Joined(_)
Joined(ps) ==
    IF ps = <<>> THEN <<>>
    ELSE IF Len(ps) = 1 THEN Head(ps)
    ELSE Head(ps) \o <<Comma>> \o Joined(Tail(ps))

\* Some value of rcv that MarshalJSON encodes does not encode.
SomeValueFails(rcv) == \E k \in DOMAIN rcv : JsonMarshal(rcv[k]).err # "nil"

(***************************************************************************)
(* Properties of SanitizeComponent.                                        *)
(***************************************************************************)
\* C1: discriminant precedence.  When the generic record has a string "type"
\* T, a key equal to T and a key "plugin", the call succeeds, the arm that
\* copies the entry named T is the one that runs, the returned record holds
\* that entry under the same key with the same value and nothing else
\* besides "type", and a plugin entry distinct from the one named T is not
\* in it.
C1_DiscriminantPrecedence ==
    (Returned /\ HasStrType /\ Discriminant \in DOMAIN hashMap
        /\ "plugin" \in DOMAIN hashMap)
    => /\ origin = "sanitized" /\ ~result.isNil
       /\ branch = "type"
       /\ DOMAIN result.rec = {"type", Discriminant}
       /\ result.rec[Discriminant] = hashMap[Discriminant]
       /\ (Discriminant # "plugin" => "plugin" \notin DOMAIN result.rec)

C1_Witness ==
    /\ origin = "sanitized" /\ HasStrType /\ Discriminant = "http"
    /\ "http" \in DOMAIN hashMap /\ HasPlugin
    /\ result.rec["http"] = hashMap["http"]

\* C2: fallback rule.  When the generic record has a string "type" T and no
\* key equal to T, the returned record is {"type": T, "plugin": P} if the
\* record has a "plugin" entry with non-null value P, and exactly
\* {"type": T} if "plugin" is absent or null.
C2_FallbackRule ==
    (Returned /\ HasStrType /\ Discriminant \notin DOMAIN hashMap)
    => /\ origin = "sanitized" /\ ~result.isNil /\ result.err = "nil"
       /\ result.rec =
            IF HasPlugin
            THEN [k \in {"type", "plugin"} |->
                     IF k = "type" THEN Str(Discriminant) ELSE hashMap["plugin"]]
            ELSE [k \in {"type"} |-> Str(Discriminant)]

C2_Witness ==
    /\ origin = "sanitized" /\ HasStrType /\ Discriminant = "custom"
    /\ HasPlugin /\ hashMap["plugin"].kind = "map"
    /\ DOMAIN result.rec = {"type", "plugin"}

\* C3: atomic failure on a missing or invalid discriminant.  When the
\* generic record has no "type" key or a "type" value that is no string,
\* the call returns an error and the nil record, whatever else the record
\* holds.
C3_MissingTypeFails ==
    (Returned /\ ~HasStrType)
    => /\ origin = "failed"
       /\ result.err # "nil"
       /\ result.isNil
       /\ DOMAIN result.rec = {}

C3_Witness ==
    /\ origin = "failed" /\ "type" \in DOMAIN hashMap
    /\ hashMap["type"].kind = "num"
    /\ HasPlugin /\ "http" \in DOMAIN hashMap
    /\ result.isNil

\* C4: shape of every record returned without error.  It has the key "type"
\* with a string value equal to the input's "type" value, at most 2 keys,
\* and any other key is the discriminant or "plugin", with the value the
\* generic record holds under it; so MarshalJSON on it finds a non-null
\* type in whatever order it meets the keys, and its output starts with the
\* type pair.
C4_ShapeInvariant ==
    origin = "sanitized"
    => /\ ~result.isNil /\ result.err = "nil" /\ s = result.rec
       /\ "type" \in DOMAIN result.rec
       /\ result.rec["type"].kind = "str"
       /\ conf.top = "map" /\ "type" \in DOMAIN conf.m
       /\ result.rec["type"] = conf.m["type"]
       /\ Cardinality(DOMAIN result.rec) <= 2
       /\ \A k \in OthersOf(result.rec) :
              /\ k \in {Discriminant, "plugin"}
              /\ k \in DOMAIN hashMap
              /\ result.rec[k] = hashMap[k]
       /\ \A order \in IterOrders(DOMAIN s) : Partition(s, order).typeVal # NullV
       /\ (JsonOk => TypeEmitted(json.bytes))

C4_Witness ==
    /\ origin = "sanitized" /\ Cardinality(DOMAIN result.rec) = 2
    /\ "plugin" \in DOMAIN hashMap /\ "http" \in DOMAIN hashMap
    /\ JsonOk

\* C5, as stated: "plugin" is in the returned record only if the generic
\* record has no entry named by the discriminant and its "plugin" entry is
\* non-null, for every discriminant.
C5_Original ==
    (origin = "sanitized" /\ "plugin" \in DOMAIN result.rec)
    => (Discriminant \notin DOMAIN hashMap /\ HasPlugin)

\* C5, amended: "plugin" is in the returned record only if either the
\* discriminant is itself "plugin" and the generic record has a "plugin"
\* entry, which is then copied whatever its value, null included, or the
\* generic record has no entry named by the discriminant and its "plugin"
\* entry is non-null.
C5_PluginOnlyAsFallbackOrDiscriminant ==
    (origin = "sanitized" /\ "plugin" \in DOMAIN result.rec)
    => /\ "plugin" \in DOMAIN hashMap
       /\ result.rec["plugin"] = hashMap["plugin"]
       /\ \/ Discriminant = "plugin" /\ branch = "type"
          \/ /\ Discriminant \notin DOMAIN hashMap
             /\ HasPlugin
             /\ branch = "plugin"

C5_Witness ==
    /\ origin = "sanitized" /\ Discriminant = "plugin"
    /\ "plugin" \in DOMAIN result.rec /\ result.rec["plugin"] = NullV

(***************************************************************************)
(* Properties of MarshalJSON.                                              *)
(***************************************************************************)
\* C6: type first.  When the "type" value of the record is not null, an
\* output starts with the brace, the "type" key and the encoded type value,
\* and every other key starts after them.
C6_TypeFirst ==
    (JsonOk /\ TypeOf(s) # NullV)
    => LET e == JsonMarshal(s["type"]).bytes
       IN /\ TypeEmitted(json.bytes)
          /\ Len(json.bytes) >= 4 + Len(e)
          /\ SubSeq(json.bytes, 5, 4 + Len(e)) = e
          /\ \A i \in KeyPositions(json.bytes) :
                 \/ i = 2 /\ json.bytes[i + 1] = Bytes("type")
                 \/ i > 4 + Len(e) /\ json.bytes[i + 1] # Bytes("type")
          /\ Cardinality(KeyPositions(json.bytes)) = Cardinality(DOMAIN s)

C6_Witness ==
    /\ JsonOk /\ TypeOf(s) = Str("http")
    /\ {"", "plugin", "ty"} \subseteq DOMAIN s

\* C7: deterministic ordering.  The result MarshalJSON returned is the one
\* it returns for every order in which the range over the map can meet the
\* keys, and in an output the keys other than "type" are ascending, each
\* exactly once.
C7_Deterministic ==
    json.called
    => /\ \A order \in IterOrders(DOMAIN s) :
              MarshalJSONResult(s, order) = [bytes |-> json.bytes, err |-> json.err]
       /\ json.err = "nil"
          => LET others == SelectSeq(KeysOf(json.bytes),
                                     LAMBDA k : k # Bytes("type"))
             IN /\ Len(others) = Cardinality(OthersOf(s))
                /\ {others[i] : i \in 1..Len(others)}
                     = {Bytes(k) : k \in OthersOf(s)}
                /\ \A i \in 1..(Len(others) - 1) :
                       SeqLess(others[i], others[i + 1])

C7_Witness ==
    /\ JsonOk /\ Cardinality(OthersOf(s)) >= 3
    /\ KeysOf(json.bytes)
         = <<Bytes("type"), Bytes(""), Bytes("plugin"), Bytes("types")>>

\* C8: pairs and separators.  In an output the type pair is there exactly
\* when the "type" value is not null (the empty string is emitted, an
\* absent or null type is not); the output is the brace, the pairs with
\* exactly one comma between each two, and the closing brace, with no comma
\* right after the opening brace or right before the closing one; and it
\* is {} when the type is null or absent and there is no other key.
C8_PairsAndSeparators ==
    JsonOk
    => LET b == json.bytes
       IN /\ TypeEmitted(b) <=> TypeOf(s) # NullV
          /\ b = <<LBrace>> \o Joined(PairsOf(s)) \o <<RBrace>>
          /\ b[1] = LBrace /\ b[Len(b)] = RBrace
          /\ b[2] # Comma /\ b[Len(b) - 1] # Comma
          /\ \A i \in 1..(Len(b) - 1) : ~(b[i] = Comma /\ b[i + 1] = Comma)
          /\ Cardinality({i \in 1..Len(b) : b[i] = Comma})
               = (IF PairsOf(s) = <<>> THEN 0 ELSE Len(PairsOf(s)) - 1)
          /\ (TypeOf(s) = NullV /\ OthersOf(s) = {}) => b = <<LBrace, RBrace>>

C8_Witness ==
    /\ JsonOk /\ TypeOf(s) = NullV /\ "type" \in DOMAIN s
    /\ Cardinality(OthersOf(s)) >= 2

\* C9: atomic failure.  MarshalJSON returns an error exactly when the
\* encoding of some value of the record fails, wherever its key falls in
\* the order; it then returns no bytes at all; and a call leaves the record
\* as it was.
C9_AtomicFailure ==
    /\ [](json.called
            => /\ json.err # "nil" <=> SomeValueFails(s)
               /\ json.err # "nil" => json.bytes = <<>>
               /\ json.err = "nil" => json.bytes # <<>>)
    /\ [][json'.called /\ ~json.called => s' = s]_vars

C9_Witness ==
    /\ json.called /\ json.err # "nil" /\ json.bytes = <<>>
    /\ TypeOf(s) = Str("http")
    /\ {"", "types"} \subseteq DOMAIN s
    /\ JsonMarshal(s[""]).err = "nil"
    /\ JsonMarshal(s["types"]).err # "nil"

(***************************************************************************)
(* Properties of MarshalYAML.                                              *)
(***************************************************************************)
\* C10: the value MarshalYAML returns has "type" as its first field,
\* holding the record's "type" value, null when the record has no "type"
\* key or a null one; its inlined map holds exactly the record's other
\* keys, each with its value, and no "type"; there is no error; and a call
\* leaves the record as it was.
C10_YamlStructure ==
    /\ [](yaml.called
            => /\ yaml.err = "nil"
               /\ yaml.val.tags = <<"type", ",inline">>
               /\ yaml.val.Type = TypeOf(s)
               /\ DOMAIN yaml.val.SanitForYAML = OthersOf(s)
               /\ \A k \in OthersOf(s) : yaml.val.SanitForYAML[k] = s[k]
               /\ "type" \notin DOMAIN yaml.val.SanitForYAML)
    /\ [][yaml'.called /\ ~yaml.called => s' = s]_vars

C10_Witness ==
    /\ yaml.called /\ "type" \in DOMAIN s /\ s["type"] = NullV
    /\ yaml.val.Type = NullV
    /\ Cardinality(DOMAIN yaml.val.SanitForYAML) >= 2

====
